---- MODULE Spec2Model ----
(***************************************************************************)
(* Voice->Email bot (src/app.py): module start-up, the per-chat settings   *)
(* store, the message handlers, chunk() and the __main__ poll loop.        *)
(*                                                                         *)
(* A Python str is a sequence of one-character strings.  An optional value *)
(* (None or a value) is a sequence of length 0 or 1.                       *)
(***************************************************************************)
EXTENDS Integers, Sequences, FiniteSets, TLC

None == <<>>
Some(x) == <<x>>

(***************************************************************************)
(* Bounds of the model.                                                    *)
(***************************************************************************)
MaxFiles == 1          \* temporary files the disk holds before audio events stop
MaxPollFailures == 2   \* consecutive polling failures that are counted
ChunkSize == 24        \* segment size the handlers use (scaled down: the program's
                       \* default is 3800, src/app.py line 59)
LongLen == 25          \* length of the long completion (more than one segment)
MaxLen == 4            \* chunk(): longest text tried
MaxSize == 5           \* chunk(): largest segment size tried

\* message.chat.id: the chats that write to the bot
ChatIds == {1, 2}

(***************************************************************************)
(* String literals of the program.                                         *)
(***************************************************************************)
S_pl == <<"p", "l">>
S_en == <<"e", "n">>
S_ua == <<"u", "a">>
S_formal == <<"f", "o", "r", "m", "a", "l">>
S_friendly == <<"f", "r", "i", "e", "n", "d", "l", "y">>
S_firm == <<"f", "i", "r", "m">>
S_openai == <<"o", "p", "e", "n", "a", "i">>
S_groq == <<"g", "r", "o", "q">>
S_429 == <<"4", "2", "9">>
S_insufficient_quota ==
  <<"i", "n", "s", "u", "f", "f", "i", "c", "i", "e", "n", "t", "_", "q", "u", "o", "t", "a">>
S_audio_slash == <<"a", "u", "d", "i", "o", "/">>
S_application_ogg ==
  <<"a", "p", "p", "l", "i", "c", "a", "t", "i", "o", "n", "/", "o", "g", "g">>
S_video_mp4 == <<"v", "i", "d", "e", "o", "/", "m", "p", "4">>
\* "📝 *Transcript:*\n" ; the first character stands for U+1F4DD
S_transcript_header ==
  <<"#", " ", "*", "T", "r", "a", "n", "s", "c", "r", "i", "p", "t", ":", "*", "\n">>

LANGS == {S_pl, S_en, S_ua}
TONES == {S_formal, S_friendly, S_firm}

(***************************************************************************)
(* str methods.                                                            *)
(***************************************************************************)
Whitespace == {" ", "\n", "\t"}

LowerChar(c) ==
  CASE c = "A" -> "a" [] c = "D" -> "d" [] c = "E" -> "e" [] c = "F" -> "f"
    [] c = "G" -> "g" [] c = "I" -> "i" [] c = "L" -> "l" [] c = "M" -> "m"
    [] c = "N" -> "n" [] c = "O" -> "o" [] c = "P" -> "p" [] c = "Q" -> "q"
    [] c = "R" -> "r" [] c = "U" -> "u" [] c = "Y" -> "y"
    [] OTHER -> c

Lower(s) == [i \in 1..Len(s) |-> LowerChar(s[i])]

\* sub in s
Contains(sub, s) ==
  \E i \in 0..(Len(s) - Len(sub)) : SubSeq(s, i + 1, i + Len(sub)) = sub

StartsWith(s, prefix) ==
  Len(s) >= Len(prefix) /\ SubSeq(s, 1, Len(prefix)) = prefix

\* s.strip()
Strip(s) ==
  LET keep == {i \in 1..Len(s) : s[i] \notin Whitespace}
  IN  IF keep = {} THEN <<>>
      ELSE LET lo == CHOOSE i \in keep : \A j \in keep : i <= j
               hi == CHOOSE i \in keep : \A j \in keep : j <= i
           IN  SubSeq(s, lo, hi)

\* s.split(): the maximal runs of non-whitespace characters, in order
RECURSIVE Split(_)
Split(s) ==
  LET keep == {i \in 1..Len(s) : s[i] \notin Whitespace}
  IN  IF keep = {} THEN <<>>
      ELSE LET lo == CHOOSE i \in keep : \A j \in keep : i <= j
               stops == {i \in lo..Len(s) : s[i] \in Whitespace}
               hi == IF stops = {} THEN Len(s) + 1
                     ELSE CHOOSE i \in stops : \A j \in stops : i <= j
           IN  <<SubSeq(s, lo, hi - 1)>> \o Split(SubSeq(s, hi, Len(s)))

\* truthiness of an optional str: None and "" are false
Truthy(v) == v # None /\ v[1] # <<>>

\* os.getenv(key, default): v is the value of the variable, None when unset
Getenv(v, default) == IF v = None THEN default ELSE v[1]

(***************************************************************************)
(* chunk(text, size): text[i:i+size] for i in range(0, len(text), size)    *)
(***************************************************************************)
Min(a, b) == IF a <= b THEN a ELSE b

chunkOffByOne(text, size) ==
  LET starts == {i \in 0..(Len(text) - 1) : i % size = 0}
      n == Cardinality(starts)
  IN  [k \in 1..n |-> SubSeq(text, (k - 1) * size + 1,
                             Min((k - 1) * size + size - 1, Len(text)))]

chunk(text, size) ==
  LET starts == {i \in 0..(Len(text) - 1) : i % size = 0}   \* range(0, len, size)
      n == Cardinality(starts)
  IN  [k \in 1..n |-> SubSeq(text, (k - 1) * size + 1,
                             Min((k - 1) * size + size, Len(text)))]

RECURSIVE Concat(_)
Concat(parts) ==
  IF parts = <<>> THEN <<>> ELSE Head(parts) \o Concat(Tail(parts))

(***************************************************************************)
(* State.                                                                  *)
(***************************************************************************)
VARIABLES
  mainPc,         \* "import" | "main" | "polling" | "except" | "fatal" | "terminated"
  environ,        \* the environment the import-time code read, None once past it
  exitCause,      \* the exception that ended the process, or "none"
  PROVIDER,       \* module globals set at start-up
  DEFAULT_LANG,
  DEFAULT_TONE,
  settings,       \* the defaultdict: chat id -> [lang, tone], created keys only
  files,          \* temporary files that exist on disk
  run,            \* the handler invocation the dispatcher is in, or NoRun
  pollFailures,   \* consecutive iterations of the poll loop that ended in except
  lastArg,        \* chat id -> args[1] of the last /lang and /tone that stored it
  cText, cSize, cOut, cDone   \* a call of chunk(): arguments and result

vars == <<mainPc, environ, exitCause, PROVIDER, DEFAULT_LANG, DEFAULT_TONE, settings,
          files, run, pollFailures, lastArg, cText, cSize, cOut, cDone>>

chunkVars == <<cText, cSize, cOut, cDone>>
globalVars == <<PROVIDER, DEFAULT_LANG, DEFAULT_TONE>>
histVars == <<lastArg>>

\* one call made by a handler: a chat-platform call, a provider call or a file operation
Call(op, kind, text, lang, tone, ok) ==
  [op |-> op, kind |-> kind, text |-> text, lang |-> lang, tone |-> tone, ok |-> ok]

Reply(kind, text, ok) == Call("reply_to", kind, text, <<>>, <<>>, ok)

\* a handler invocation: the message, where the handler is, the calls it made
\* in order, the call of the try block that raised and str(e) of its exception,
\* whether an exception left the handler, the temporary files it created, and
\* the values of its locals transcript and email / out once they are assigned
Run(handler, chat, text, media, calls, raised, created) ==
  [handler |-> handler, chat |-> chat, text |-> text, media |-> media,
   at |-> "exit", calls |-> calls, failed |-> "none", exc |-> None,
   raised |-> raised, created |-> created, transcript |-> None, out |-> None]

NoMedia == [type |-> "none", mime |-> None]
NoRun == Run("none", 0, <<>>, NoMedia, <<>>, FALSE, {})

(***************************************************************************)
(* Inputs: the environment, inbound messages, outcomes of external calls.  *)
(***************************************************************************)
Envs ==
  {env \in [PROVIDER : {None, Some(<<"G", "R", "O", "Q">>)},
             GROQ_API_KEY : {None, Some(<<"g", "k">>)},
             OPENAI_API_KEY : {None, Some(<<"o", "k">>)},
             TELEGRAM_BOT_TOKEN : {None, Some(<<>>), Some(<<"t">>)},
             DEFAULT_LANG : {None, Some(<<"D", "E">>)},
             DEFAULT_TONE : {None, Some(<<"F", "i", "r", "m">>)}] :
     \* at most one of the three optional settings is given
     Cardinality({k \in {"PROVIDER", "DEFAULT_LANG", "DEFAULT_TONE"} : env[k] # None}) <= 1}

LangTexts ==
  {<<"/", "l", "a", "n", "g">>,
   <<"/", "l", "a", "n", "g", " ", "e", "n">>,
   <<"/", "l", "a", "n", "g", " ", " ", "U", "A", " ", "x">>,
   <<"/", "l", "a", "n", "g", " ", "d", "e">>}

ToneTexts ==
  {<<"/", "t", "o", "n", "e">>,
   <<"/", "t", "o", "n", "e", " ", "f", "i", "r", "m">>,
   <<"/", "t", "o", "n", "e", "\t", "F", "r", "i", "e", "n", "d", "l", "y">>,
   <<"/", "t", "o", "n", "e", " ", "r", "u", "d", "e">>}

PlainTexts == {<<"h", "e", "y">>}

\* document.mime_type
Mimes ==
  {None,
   Some(<<"i", "m", "a", "g", "e", "/", "p", "n", "g">>),
   Some(<<"v", "i", "d", "e", "o", "/", "m", "p", "e", "g">>),
   Some(<<"A", "u", "d", "i", "o", "/", "O", "G", "G">>),
   Some(S_application_ogg),
   Some(S_video_mp4)}

\* a voice, audio or document message (one content type per message)
Medias ==
  {[type |-> "voice", mime |-> None], [type |-> "audio", mime |-> None]}
    \cup [type : {"document"}, mime : Mimes]

\* str(e) of the exception a failing call raises
ErrTexts ==
  {<<"E", "r", "r", "o", "r", " ", "c", "o", "d", "e", ":", " ", "4", "2", "9">>,
   <<"c", "o", "d", "e", "=">> \o S_insufficient_quota,
   <<"4", "2", " ", "9", " ", "q", "u", "o", "t", "a">>}

Letters == <<"a", "b", "c", "d", "e">>

\* a completion longer than one segment
LongText == [i \in 1..LongLen |-> Letters[((i - 1) % Len(Letters)) + 1]]

\* resp.choices[0].message.content
RawContents == {<<" ", "H", "i", "\n">>, LongText, <<>>}

\* tr.text
RawTranscripts == {<<" ", "y", "o", " ">>}

(***************************************************************************)
(* Module start-up (import time).                                          *)
(***************************************************************************)
Init ==
  /\ mainPc = "import"
  /\ environ = None
  /\ exitCause = "none"
  /\ PROVIDER = None
  /\ DEFAULT_LANG = None
  /\ DEFAULT_TONE = None
  /\ settings = <<>>
  /\ files = {}
  /\ run = NoRun
  /\ pollFailures = 0
  /\ lastArg = [c \in ChatIds |-> [lang |-> None, tone |-> None]]
  /\ cText = <<>> /\ cSize = 1 /\ cOut = <<>> /\ cDone = FALSE

SelectedKeySwapped(env, provider) ==
  IF provider = S_groq THEN env.OPENAI_API_KEY ELSE env.GROQ_API_KEY

\* the API key the selected provider's branch reads
SelectedKey(env, provider) ==
  IF provider = S_groq THEN env.GROQ_API_KEY ELSE env.OPENAI_API_KEY

\* the module-level code up to the creation of the bot
Startup ==
  /\ mainPc = "import"
  /\ \E env \in Envs :
       LET provider == Lower(Getenv(env.PROVIDER, S_openai))
       IN  /\ environ' = Some(env)
           /\ PROVIDER' = provider
           /\ IF ~Truthy(SelectedKey(env, provider))
              THEN /\ mainPc' = "fatal"
                   /\ exitCause' = "RuntimeError"
                   /\ UNCHANGED <<DEFAULT_LANG, DEFAULT_TONE>>
              ELSE /\ DEFAULT_LANG' = Lower(Getenv(env.DEFAULT_LANG, S_pl))
                   /\ DEFAULT_TONE' = Lower(Getenv(env.DEFAULT_TONE, S_formal))
                   /\ IF ~Truthy(env.TELEGRAM_BOT_TOKEN)
                      THEN mainPc' = "fatal" /\ exitCause' = "RuntimeError"
                      ELSE mainPc' = "main" /\ exitCause' = "none"
  /\ UNCHANGED <<settings, files, run, pollFailures, chunkVars, histVars>>

\* if __name__ == "__main__": print(...); while True: try: bot.infinity_polling(...)
EnterLoop ==
  /\ mainPc = "main"
  /\ mainPc' = "polling"
  /\ environ' = None
  /\ UNCHANGED <<exitCause, globalVars, settings, files, run, pollFailures,
                 chunkVars, histVars>>

(***************************************************************************)
(* The settings store: defaultdict(lambda: {"lang": ..., "tone": ...}).    *)
(***************************************************************************)
TouchReset(s, chat) ==
  [c \in DOMAIN s \cup {chat} |->
     IF c = chat THEN [lang |-> DEFAULT_LANG, tone |-> DEFAULT_TONE] ELSE s[c]]

\* settings[chat]: the stored session, created with the defaults on first access
Touch(s, chat) ==
  IF chat \in DOMAIN s THEN s
  ELSE [c \in DOMAIN s \cup {chat} |->
          IF c = chat THEN [lang |-> DEFAULT_LANG, tone |-> DEFAULT_TONE] ELSE s[c]]

SetLangShared(s, chat, lang) ==
  [c \in DOMAIN Touch(s, chat) |-> [Touch(s, chat)[c] EXCEPT !.lang = lang]]

SetLangDropped(s, chat, lang) == Touch(s, chat)

\* settings[chat]["lang"] = lang
SetLang(s, chat, lang) ==
  [Touch(s, chat) EXCEPT ![chat].lang = lang]

SetToneResetsLang(s, chat, tone) ==
  [Touch(s, chat) EXCEPT ![chat] = [lang |-> DEFAULT_LANG, tone |-> tone]]

\* settings[chat]["tone"] = tone
SetTone(s, chat, tone) ==
  [Touch(s, chat) EXCEPT ![chat].tone = tone]

(***************************************************************************)
(* Command handlers.                                                       *)
(***************************************************************************)
Idle == mainPc = "polling" /\ run = NoRun

cmd_start ==
  /\ Idle
  /\ \E chat \in ChatIds, replyOk \in BOOLEAN :
       LET s == Touch(settings, chat)
           st == s[chat]
       IN  /\ settings' = s
           /\ run' = Run("cmd_start", chat, <<"/", "s", "t", "a", "r", "t">>, NoMedia,
                         <<Call("reply_to", "help", <<>>, st.lang, st.tone, replyOk)>>,
                         ~replyOk, {})
  /\ pollFailures' = 0
  /\ UNCHANGED <<mainPc, exitCause, globalVars, files, chunkVars, histVars, environ>>

\* len(args) < 2 or args[1].lower() not in ("pl","en","ua")
LangArgRejected(args) == Len(args) < 2 \/ Lower(args[2]) \notin LANGS

ToneArgRejected(args) == Len(args) < 2 \/ Lower(args[2]) \notin TONES

cmd_lang ==
  /\ Idle
  /\ \E chat \in ChatIds, text \in LangTexts, replyOk \in BOOLEAN :
       LET args == Split(text)
       IN  IF LangArgRejected(args)
           THEN /\ settings' = settings
                /\ lastArg' = lastArg
                /\ run' = Run("cmd_lang", chat, text, NoMedia,
                              <<Reply("usage_lang", <<>>, replyOk)>>, ~replyOk, {})
           ELSE /\ settings' = SetLang(settings, chat, Lower(args[2]))
                /\ lastArg' = [lastArg EXCEPT ![chat].lang = Some(args[2])]
                /\ run' = Run("cmd_lang", chat, text, NoMedia,
                              <<Call("reply_to", "ack_lang", <<>>, Lower(args[2]), <<>>, replyOk)>>, ~replyOk, {})
  /\ pollFailures' = 0
  /\ UNCHANGED <<mainPc, environ, exitCause, globalVars, files, chunkVars>>

cmd_tone ==
  /\ Idle
  /\ \E chat \in ChatIds, text \in ToneTexts, replyOk \in BOOLEAN :
       LET args == Split(text)
       IN  IF ToneArgRejected(args)
           THEN /\ settings' = settings
                /\ lastArg' = lastArg
                /\ run' = Run("cmd_tone", chat, text, NoMedia,
                              <<Reply("usage_tone", <<>>, replyOk)>>, ~replyOk, {})
           ELSE /\ settings' = SetTone(settings, chat, Lower(args[2]))
                /\ lastArg' = [lastArg EXCEPT ![chat].tone = Some(args[2])]
                /\ run' = Run("cmd_tone", chat, text, NoMedia,
                              <<Call("reply_to", "ack_tone", <<>>, <<>>, Lower(args[2]), replyOk)>>, ~replyOk, {})
  /\ pollFailures' = 0
  /\ UNCHANGED <<mainPc, environ, exitCause, globalVars, files, chunkVars>>

(***************************************************************************)
(* Message handlers.                                                       *)
(***************************************************************************)
IsQuotaErrorCodeOnly(msg) == Contains(S_429, msg)

\* "insufficient_quota" in msg or "429" in msg
IsQuotaError(msg) == Contains(S_insufficient_quota, msg) \/ Contains(S_429, msg)

\* the reply the except block of handle_text / handle_audio sends
ErrorReply(quotaKind, e, ok) ==
  IF IsQuotaError(e) THEN Reply(quotaKind, <<>>, ok) ELSE Reply("generic", e, ok)

ExceptBlockBothReplies(quotaKind, e, ok) ==
  IF IsQuotaError(e) THEN <<Reply(quotaKind, <<>>, ok), Reply("generic", e, ok)>>
  ELSE <<Reply("generic", e, ok)>>

\* except Exception as e: the replies of the if / else on str(e)
ExceptBlock(quotaKind, e, ok) == <<ErrorReply(quotaKind, e, ok)>>

SendsKeepGoing(text, failAt) ==
  [i \in 1..Len(chunk(text, ChunkSize)) |->
     Reply("part", chunk(text, ChunkSize)[i], i # failAt)]

\* for part in chunk(text): bot.reply_to(message, part), the send failAt raising
Sends(text, failAt) ==
  LET parts == chunk(text, ChunkSize)
      n == IF failAt = 0 THEN Len(parts) ELSE failAt
  IN  [i \in 1..n |-> Reply("part", parts[i], i # failAt)]

NumParts(text) == Len(chunk(text, ChunkSize))

\* write_email_from_text(text, lang, tone), raising or returning content.strip()
Complete(text, st, ok) == Call("complete", "", text, st.lang, st.tone, ok)

\* the try block of handle_text; fail names the call that raises
TextTry(text, st, fail, failAt, content) ==
  IF fail = "complete" THEN <<Complete(text, st, FALSE)>>
  ELSE <<Complete(text, st, TRUE)>> \o Sends(Strip(content), failAt)

handle_text ==
  /\ Idle
  /\ \E chat \in ChatIds, text \in PlainTexts, fail \in {"none", "complete", "send"},
        errReplyOk \in BOOLEAN :
       \E err \in (IF fail = "none" THEN {<<>>} ELSE ErrTexts),
          content \in (IF fail = "complete" THEN {<<>>} ELSE RawContents) :
         \E failAt \in 0..NumParts(Strip(content)) :
           LET s == Touch(settings, chat)
               tried == TextTry(text, s[chat], fail, failAt, content)
               calls == IF fail = "none" THEN tried
                        ELSE tried \o ExceptBlock("quota_text", err, errReplyOk)
           IN  /\ (fail = "send") = (failAt > 0)
               /\ fail = "none" => errReplyOk
               /\ settings' = s
               /\ run' = [Run("handle_text", chat, text, NoMedia, calls,
                              fail # "none" /\ ~errReplyOk, {})
                            EXCEPT !.exc = IF fail = "none" THEN None ELSE Some(err),
                                   !.failed = fail,
                                   !.out = IF fail = "complete" THEN None
                                           ELSE Some(Strip(content))]
  /\ pollFailures' = 0
  /\ UNCHANGED <<mainPc, exitCause, globalVars, files, chunkVars, histVars, environ>>

MimeAcceptedAnyVideo(mime) ==
  LET m == Lower(Getenv(mime, <<>>))
  IN  \/ StartsWith(m, S_audio_slash)
      \/ m = S_application_ogg
      \/ StartsWith(m, <<"v", "i", "d", "e", "o", "/">>)

\* mime.startswith("audio/") or mime in ("application/ogg", "video/mp4"),
\* with mime = (message.document.mime_type or "").lower()
MimeAccepted(mime) ==
  LET m == Lower(Getenv(mime, <<>>))
  IN  StartsWith(m, S_audio_slash) \/ m \in {S_application_ogg, S_video_mp4}

\* lines 153-166 of handle_audio: the session is looked up, a document of another
\* MIME type is answered with the warning, any other message goes on to the try block
handle_audio ==
  /\ Idle
  /\ Cardinality(files) < MaxFiles
  /\ \E chat \in ChatIds, media \in Medias, replyOk \in BOOLEAN :
       /\ settings' = Touch(settings, chat)
       /\ IF media.type = "document" /\ ~MimeAccepted(media.mime)
          THEN run' = Run("handle_audio", chat, <<>>, media,
                          <<Reply("warn_mime", <<>>, replyOk)>>, ~replyOk, {})
          ELSE /\ replyOk
               /\ run' = [Run("handle_audio", chat, <<>>, media, <<>>, FALSE, {})
                            EXCEPT !.at = "try"]
  /\ pollFailures' = 0
  /\ UNCHANGED <<mainPc, exitCause, globalVars, files, chunkVars, histVars, environ>>

\* the calls of download_file(file_id), in order
DownloadStages == <<"get_file", "download_file", "mkstemp", "write">>

AudioFails ==
  {"none", "get_file", "download_file", "mkstemp", "write", "transcribe", "complete", "send"}

\* the position among the calls of download_file of the one that raises
DownloadFailPos(fail) ==
  IF \E i \in 1..Len(DownloadStages) : DownloadStages[i] = fail
  THEN CHOOSE i \in 1..Len(DownloadStages) : DownloadStages[i] = fail
  ELSE Len(DownloadStages) + 1

Op(name, ok) == Call(name, "", <<>>, <<>>, <<>>, ok)

DownloadCalls(fail) ==
  [i \in 1..Min(DownloadFailPos(fail), Len(DownloadStages)) |->
     Op(DownloadStages[i], i # DownloadFailPos(fail))]

\* out = f"<header>{transcript}\n\n{email}"
Combined(transcript, email) ==
  S_transcript_header \o transcript \o <<"\n", "\n">> \o email

AudioTryPastTranscribeError(st, fail, failAt, transcript, content) ==
  IF DownloadFailPos(fail) <= Len(DownloadStages) THEN DownloadCalls(fail)
  ELSE IF fail = "transcribe"
       THEN DownloadCalls(fail) \o <<Op("transcribe", FALSE)>>
              \o <<Complete(<<>>, st, FALSE)>>
  ELSE IF fail = "complete"
       THEN DownloadCalls(fail) \o <<Op("transcribe", TRUE)>>
              \o <<Complete(Strip(transcript), st, FALSE)>>
       ELSE DownloadCalls(fail) \o <<Op("transcribe", TRUE)>>
              \o <<Complete(Strip(transcript), st, TRUE)>>
              \o Sends(Combined(Strip(transcript), Strip(content)), failAt)

\* the try block of handle_audio; fail names the call that raises
AudioTry(st, fail, failAt, transcript, content) ==
  IF DownloadFailPos(fail) <= Len(DownloadStages) THEN DownloadCalls(fail)
  ELSE IF fail = "transcribe" THEN DownloadCalls(fail) \o <<Op("transcribe", FALSE)>>
  ELSE IF fail = "complete"
       THEN DownloadCalls(fail) \o <<Op("transcribe", TRUE)>>
              \o <<Complete(Strip(transcript), st, FALSE)>>
       ELSE DownloadCalls(fail) \o <<Op("transcribe", TRUE)>>
              \o <<Complete(Strip(transcript), st, TRUE)>>
              \o Sends(Combined(Strip(transcript), Strip(content)), failAt)

\* tempfile.mkstemp(): a path no existing file has
FreshFile ==
  CHOOSE f \in 1..MaxFiles : f \notin files /\ \A g \in 1..(f - 1) : g \in files

\* the files download_file() created: mkstemp succeeded
CreatedBy(fail) ==
  IF fail \in {"get_file", "download_file", "mkstemp"} THEN {} ELSE {FreshFile}

\* local_path was assigned: download_file() returned
PathBound(fail) == DownloadFailPos(fail) > Len(DownloadStages)

\* finally: try: os.remove(local_path) / except Exception: pass
FinallyCalls(fail) == IF PathBound(fail) THEN <<Op("remove", TRUE)>> ELSE <<>>

\* the disk when handle_audio exits
FilesAfter(fail) == IF PathBound(fail) THEN files ELSE files \cup CreatedBy(fail)

\* what the try block reaches: the transcript and the completion it is given
AudioInputs(fail) ==
  IF fail \in {"none", "send"} THEN RawTranscripts \X RawContents
  ELSE {<<CHOOSE t \in RawTranscripts : TRUE, <<>>>>}

\* lines 168-183 of handle_audio: try / except / finally.  The message's
\* media, which nothing reads after line 166, is dropped from the record.
handle_audio_try ==
  /\ run.handler = "handle_audio" /\ run.at = "try"
  /\ \E fail \in AudioFails, errReplyOk \in BOOLEAN :
       \E err \in (IF fail = "none" THEN {<<>>} ELSE ErrTexts), in \in AudioInputs(fail) :
         \E failAt \in 0..NumParts(Combined(Strip(in[1]), Strip(in[2]))) :
           LET tried == AudioTry(settings[run.chat], fail, failAt, in[1], in[2])
               handled == IF fail = "none" THEN tried
                          ELSE tried \o ExceptBlock("quota_audio", err, errReplyOk)
           IN  /\ (fail = "send") = (failAt > 0)
               /\ fail = "none" => errReplyOk
               /\ run' = [run EXCEPT !.at = "exit",
                                     !.media = NoMedia,
                                     !.calls = handled \o FinallyCalls(fail),
                                     !.failed = fail,
                                     !.exc = IF fail = "none" THEN None ELSE Some(err),
                                     !.raised = fail # "none" /\ ~errReplyOk,
                                     !.created = CreatedBy(fail),
                                     !.transcript =
                                        IF fail \in {"none", "complete", "send"}
                                        THEN Some(Strip(in[1])) ELSE None,
                                     !.out =
                                        IF fail \in {"none", "send"}
                                        THEN Some(Combined(Strip(in[1]), Strip(in[2])))
                                        ELSE None]
               /\ files' = FilesAfter(fail)
  /\ UNCHANGED <<mainPc, exitCause, globalVars, settings, pollFailures, chunkVars, histVars, environ>>

(***************************************************************************)
(* The dispatcher inside infinity_polling() and the __main__ poll loop.    *)
(***************************************************************************)
\* the handler returned normally: the dispatcher fetches the next update
HandlerReturn ==
  /\ run # NoRun /\ run.at = "exit" /\ ~run.raised
  /\ run' = NoRun
  /\ UNCHANGED <<mainPc, exitCause, globalVars, settings, files, pollFailures, chunkVars, histVars, environ>>

\* an exception left the handler: the library either reports it and goes on
\* polling, or lets it leave infinity_polling()
HandlerRaise ==
  /\ run # NoRun /\ run.at = "exit" /\ run.raised
  /\ run' = NoRun
  /\ \/ mainPc' = "polling" /\ pollFailures' = pollFailures
     \/ mainPc' = "except" /\ pollFailures' = pollFailures + 1
  /\ UNCHANGED <<exitCause, globalVars, settings, files, chunkVars, histVars, environ>>

\* infinity_polling() raises an Exception
PollError ==
  /\ Idle
  /\ pollFailures < MaxPollFailures
  /\ mainPc' = "except"
  /\ pollFailures' = pollFailures + 1
  /\ UNCHANGED <<exitCause, globalVars, settings, files, run, chunkVars, histVars, environ>>

\* infinity_polling() returns: while True calls it again
PollReturn ==
  /\ Idle
  /\ pollFailures' = 0
  /\ UNCHANGED <<mainPc, exitCause, globalVars, settings, files, run, chunkVars, histVars, environ>>

LogAndPauseReraise ==
  /\ mainPc = "except"
  /\ mainPc' = "terminated"
  /\ exitCause' = "Exception"
  /\ UNCHANGED <<globalVars, settings, files, run, pollFailures, chunkVars, histVars, environ>>

\* except Exception as e: print(...); time.sleep(3)
LogAndPause ==
  /\ mainPc = "except"
  /\ mainPc' = "polling"
  /\ UNCHANGED <<exitCause, globalVars, settings, files, run, pollFailures, chunkVars, histVars, environ>>

\* except KeyboardInterrupt: raise  (also an interrupt during the pause)
KeyboardInterrupt ==
  /\ mainPc \in {"polling", "except"} /\ run = NoRun
  /\ mainPc' = "terminated"
  /\ exitCause' = "KeyboardInterrupt"
  /\ UNCHANGED <<globalVars, settings, files, run, pollFailures, chunkVars, histVars, environ>>

Next ==
  \/ Startup
  \/ EnterLoop
  \/ cmd_start
  \/ cmd_lang
  \/ cmd_tone
  \/ handle_text
  \/ handle_audio
  \/ handle_audio_try
  \/ HandlerReturn
  \/ HandlerRaise
  \/ PollError
  \/ PollReturn
  \/ LogAndPause
  \/ KeyboardInterrupt

Spec == Init /\ [][Next]_vars

(***************************************************************************)
(* chunk() on its own: every text up to MaxLen, every size up to MaxSize.  *)
(***************************************************************************)
ChunkTexts == UNION {[1..n -> {"a", "b"}] : n \in 0..MaxLen}

ChunkInit ==
  /\ mainPc = "import"
  /\ environ = None
  /\ exitCause = "none"
  /\ PROVIDER = None
  /\ DEFAULT_LANG = None
  /\ DEFAULT_TONE = None
  /\ settings = <<>>
  /\ files = {}
  /\ run = NoRun
  /\ pollFailures = 0
  /\ lastArg = [c \in ChatIds |-> [lang |-> None, tone |-> None]]
  /\ cText \in ChunkTexts
  /\ cSize \in 1..MaxSize
  /\ cOut = <<>>
  /\ cDone = FALSE

ChunkCall ==
  /\ ~cDone
  /\ cOut' = chunk(cText, cSize)
  /\ cDone' = TRUE
  /\ UNCHANGED <<mainPc, environ, exitCause, globalVars, settings, files, run,
                 pollFailures, histVars,
                 cText, cSize>>

ChunkSpec == ChunkInit /\ [][ChunkCall]_vars

(***************************************************************************)
(* Properties.                                                             *)
(***************************************************************************)
Exited == run # NoRun /\ run.at = "exit"

\* C1: when handle_audio exits, however it ends, no temporary file that this
\* run created is still on disk.
C1_NoTempFileLeft ==
  (Exited /\ run.handler = "handle_audio") => run.created \cap files = {}

\* C2: no exception leaves a message handler, whichever call failed while it
\* handled the event, the reply reporting an error included.
C2_NoExceptionEscapes == Exited => ~run.raised

\* C3: every session has a language in {pl, en, ua} and a tone in
\* {formal, friendly, firm}, sessions created with the defaults included.
C3_SessionsValid ==
  \A c \in DOMAIN settings : settings[c].lang \in LANGS /\ settings[c].tone \in TONES

\* the argument of a /lang or /tone message is missing or, compared without
\* regard to case, outside the allowed values
ArgOutside(text, allowed) ==
  Len(Split(text)) < 2 \/ Lower(Split(text)[2]) \notin allowed

IsUsageReply(c, kind) == c.op = "reply_to" /\ c.kind = kind

\* C4: a /lang (/tone) command whose argument is missing or not an allowed
\* value leaves every session unchanged, replies with the usage message and
\* does not raise.
C4_RejectedCommandHarmless ==
  [][(run = NoRun
        /\ \/ run'.handler = "cmd_lang" /\ ArgOutside(run'.text, LANGS)
           \/ run'.handler = "cmd_tone" /\ ArgOutside(run'.text, TONES))
     => /\ settings' = settings
        /\ Len(run'.calls) = 1
        /\ IsUsageReply(run'.calls[1],
                        IF run'.handler = "cmd_lang" THEN "usage_lang" ELSE "usage_tone")
        /\ ~run'.raised]_vars

\* what a lookup of chat c in the store yields: its session, or the defaults
SessionOf(s, c) ==
  IF c \in DOMAIN s THEN s[c] ELSE [lang |-> DEFAULT_LANG, tone |-> DEFAULT_TONE]

\* C5: a /lang or /tone command in one chat changes no other chat's session:
\* every other chat keeps its values (the defaults if it has none yet), and
\* no session is created for or removed from another chat.
C5_SessionsIsolated ==
  [][(run = NoRun /\ run'.handler \in {"cmd_lang", "cmd_tone"})
     => \A c \in ChatIds \ {run'.chat} :
          /\ SessionOf(settings', c) = SessionOf(settings, c)
          /\ (c \in DOMAIN settings') = (c \in DOMAIN settings)]_vars

\* a successful /lang in chat 1 while chat 2 holds values set earlier
C5_Witness ==
  /\ Exited /\ run.handler = "cmd_lang" /\ run.chat = 1
  /\ DOMAIN settings = {1, 2}
  /\ settings[1].lang = S_en
  /\ settings[2].lang = S_ua /\ settings[2].tone = S_firm

NonAudioMimes ==
  {None,
   Some(<<"i", "m", "a", "g", "e", "/", "p", "n", "g">>),
   Some(<<"v", "i", "d", "e", "o", "/", "m", "p", "e", "g">>)}

\* C6: a document whose MIME type is missing or is not audio/*, application/ogg
\* or video/mp4 is answered with the warning and nothing else is done for it:
\* no download, no transcription, no completion.
C6_RejectedDocumentStops ==
  (run.handler = "handle_audio" /\ run.media.type = "document"
     /\ run.media.mime \in NonAudioMimes)
  => /\ run.at = "exit"
     /\ Len(run.calls) = 1
     /\ run.calls[1].op = "reply_to" /\ run.calls[1].kind = "warn_mime"
     /\ run.created = {}

C6_Witness ==
  /\ Exited /\ run.handler = "handle_audio"
  /\ run.media = [type |-> "document",
                  mime |-> Some(<<"i", "m", "a", "g", "e", "/", "p", "n", "g">>)]
  /\ run.calls[1].ok

IsErrorReply(c) ==
  c.op = "reply_to" /\ c.kind \in {"quota_text", "quota_audio", "generic"}

ErrorReplies(calls) == SelectSeq(calls, IsErrorReply)

CompletionFailed ==
  /\ Exited /\ run.handler \in {"handle_text", "handle_audio"}
  /\ run.failed = "complete"

\* C7: when the completion call fails with an error text that contains "429"
\* or "insufficient_quota" the quota message is the one error reply and the
\* generic message is not sent; for any other error text the generic message
\* with that text is the one error reply and the quota message is not sent.
C7_QuotaOrGenericReply ==
  CompletionFailed
  => /\ Len(ErrorReplies(run.calls)) = 1
     /\ LET r == ErrorReplies(run.calls)[1]
            e == run.exc[1]
        IN  IF Contains(S_429, e) \/ Contains(S_insufficient_quota, e)
            THEN r.kind = (IF run.handler = "handle_text" THEN "quota_text"
                           ELSE "quota_audio")
            ELSE r.kind = "generic" /\ r.text = e

C7_Witness ==
  /\ CompletionFailed /\ run.handler = "handle_audio"
  /\ Contains(S_insufficient_quota, run.exc[1]) /\ ~Contains(S_429, run.exc[1])
  /\ ErrorReplies(run.calls)[1].kind = "quota_audio"
  /\ ErrorReplies(run.calls)[1].ok

\* the characters before segment k
Offset(parts, k) == Len(Concat(SubSeq(parts, 1, k - 1)))

\* C8: chunk(text, M) for M >= 1 is ceil(L/M) segments, each of 1..M characters,
\* contiguous and in order, whose concatenation is text.
C8_ChunkPartition ==
  cDone
  => /\ Concat(cOut) = cText
     /\ Len(cOut) = (Len(cText) + cSize - 1) \div cSize
     /\ \A k \in 1..Len(cOut) :
          /\ Len(cOut[k]) >= 1 /\ Len(cOut[k]) <= cSize
          /\ cOut[k] = SubSeq(cText, Offset(cOut, k) + 1, Offset(cOut, k) + Len(cOut[k]))

\* several segments, the last one shorter than the size
C8_Witness ==
  /\ cDone /\ Len(cOut) >= 2
  /\ Len(cOut[Len(cOut)]) < cSize
  /\ cText[1] # cText[Len(cText)]

InLoop == mainPc \in {"polling", "except"}

\* C9: the poll loop is left only by a KeyboardInterrupt: after any other
\* exception of the polling step the loop pauses and polls again, however many
\* failures came before.
C9_PollLoopOnlyEndsOnInterrupt ==
  /\ [][mainPc = "except" /\ mainPc' # "except"
        => \/ mainPc' = "polling"
           \/ mainPc' = "terminated" /\ exitCause' = "KeyboardInterrupt"]_vars
  /\ [][InLoop /\ ~InLoop' => mainPc' = "terminated" /\ exitCause' = "KeyboardInterrupt"]_vars
  /\ [](mainPc = "terminated" => exitCause = "KeyboardInterrupt")

\* polling again after MaxPollFailures consecutive failures
C9_Witness ==
  mainPc = "polling" /\ run = NoRun /\ pollFailures = MaxPollFailures

IsPart(c) == c.op = "reply_to" /\ c.kind = "part"

\* positions in the call log of the replies that carry a segment
PartPositions(calls) == {i \in 1..Len(calls) : IsPart(calls[i])}

\* C11: the segments of the output are sent as separate replies in segment
\* order, each only after all earlier ones were sent successfully; when the
\* send of segment k fails, segments 1..k-1 were delivered and none after k
\* is sent.
C11_SegmentsSentInOrder ==
  (Exited /\ run.out # None)
  => LET parts == chunk(run.out[1], ChunkSize)
         sent == SelectSeq(run.calls, IsPart)
     IN  /\ Len(sent) <= Len(parts)
         /\ \A i \in 1..Len(sent) :
              /\ sent[i].text = parts[i]
              /\ i < Len(sent) => sent[i].ok
         /\ (\A i \in 1..Len(sent) : sent[i].ok) => Len(sent) = Len(parts)
         /\ \A i, j \in PartPositions(run.calls) :
              \A k \in i..j : k \in PartPositions(run.calls)

\* the first of two segments fails: nothing is sent after it
C11_Witness ==
  /\ Exited /\ run.out # None
  /\ Len(chunk(run.out[1], ChunkSize)) = 2
  /\ Len(SelectSeq(run.calls, IsPart)) = 1
  /\ ~SelectSeq(run.calls, IsPart)[1].ok

\* the value a chat's commands have set so far: the given argument of the most
\* recent successful command, as given (raw) or lower-cased, else the default
CurrentValue(arg, default, raw) ==
  IF arg = None THEN default
  ELSE IF raw THEN arg[1] ELSE Lower(arg[1])

\* the /start reply and the completion call of a text message carry these
\* language and tone values
CarriesSessionValues(raw) ==
  (Exited /\ run.handler \in {"cmd_start", "handle_text"})
  => \A i \in 1..Len(run.calls) :
       (run.calls[i].kind = "help" \/ run.calls[i].op = "complete")
       => /\ run.calls[i].lang =
               CurrentValue(lastArg[run.chat].lang, DEFAULT_LANG, raw)
          /\ run.calls[i].tone =
               CurrentValue(lastArg[run.chat].tone, DEFAULT_TONE, raw)

\* C12 (as stated): the /start reply and the language/tone passed to the
\* completion for a text message are the argument of the chat's most recent
\* successful /lang (resp. /tone), or the process-wide default if there was
\* none.
C12_ArgumentAsGiven == CarriesSessionValues(TRUE)

\* C12 (amended): the /start reply and the language/tone passed to the
\* completion for a text message are the lower-cased argument of the chat's
\* most recent successful /lang (resp. /tone), or the process-wide default if
\* there was none; rejected commands in between do not affect them.
C12_CurrentSessionValues == CarriesSessionValues(FALSE)

\* a text message is completed in a chat that set its language and left the
\* tone at the default, while the other chat set its tone
C12_Witness ==
  /\ Exited /\ run.handler = "handle_text"
  /\ \E i \in 1..Len(run.calls) : run.calls[i].op = "complete"
  /\ lastArg[run.chat].lang # None /\ lastArg[run.chat].tone = None
  /\ \E c \in ChatIds \ {run.chat} : lastArg[c].tone # None

\* a value os.getenv returns that "if not ..." takes as missing: unset or empty
Missing(v) == v = None \/ v[1] = <<>>

\* the chat-platform token, or the API key of the selected provider, is missing
RequiredKeyMissing(env, provider) ==
  \/ Missing(env.TELEGRAM_BOT_TOKEN)
  \/ provider = S_groq /\ Missing(env.GROQ_API_KEY)
  \/ provider # S_groq /\ Missing(env.OPENAI_API_KEY)

\* C13: start-up fails fatally exactly when a required configuration key is
\* missing (the chat-platform token, or the API key of the selected provider:
\* GROQ_API_KEY when PROVIDER is groq, OPENAI_API_KEY otherwise; the other
\* provider's key is not required); after a fatal start-up the process never
\* reaches the poll loop and handles no event.
C13_MissingKeyIsFatal ==
  /\ [](mainPc \in {"main", "fatal"}
        => /\ environ # None
           /\ (mainPc = "fatal") <=> RequiredKeyMissing(environ[1], PROVIDER))
  /\ [](mainPc = "fatal"
        => exitCause = "RuntimeError" /\ run = NoRun /\ settings = <<>>)
  /\ [][mainPc = "fatal" => mainPc' = "fatal"]_vars

\* groq is selected and only the OpenAI key is set: fatal
C13_Witness ==
  /\ mainPc = "fatal" /\ PROVIDER = S_groq
  /\ environ[1].TELEGRAM_BOT_TOKEN = Some(<<"t">>)
  /\ environ[1].GROQ_API_KEY = None
  /\ environ[1].OPENAI_API_KEY # None

\* the place of a call in the audio pipeline: the four calls of the download,
\* the transcription, the completion, the replies that carry the output
Stage(c) ==
  CASE c.op = "get_file" -> 1
    [] c.op = "download_file" -> 2
    [] c.op = "mkstemp" -> 3
    [] c.op = "write" -> 4
    [] c.op = "transcribe" -> 5
    [] c.op = "complete" -> 6
    [] IsPart(c) -> 7
    [] OTHER -> 0

InPipeline(c) == Stage(c) > 0

\* the try block of handle_audio was entered
AudioTried == Exited /\ run.handler = "handle_audio" /\ run.failed \in AudioFails
                /\ (run.calls = <<>> \/ run.calls[1].kind # "warn_mime")

\* C14: in the audio handler the steps happen strictly in the order download,
\* transcribe, complete, send; each call is made only after the previous step
\* succeeded; the completion receives the transcript with the chat's session
\* language and tone; if download or transcription fails there is no
\* completion call and no transcript/draft reply, only an error reply.
C14_AudioPipelineOrder ==
  AudioTried
  => LET steps == SelectSeq(run.calls, InPipeline)
         replies == SelectSeq(run.calls, LAMBDA c : c.op = "reply_to")
     IN  /\ steps # <<>> /\ Stage(steps[1]) = 1
         /\ \A i \in 2..Len(steps) :
              /\ steps[i - 1].ok
              /\ Stage(steps[i]) = IF Stage(steps[i - 1]) = 7 THEN 7
                                   ELSE Stage(steps[i - 1]) + 1
         /\ \A i \in 1..Len(steps) :
              steps[i].op = "complete"
              => /\ run.transcript # None
                 /\ steps[i].text = run.transcript[1]
                 /\ steps[i].lang = settings[run.chat].lang
                 /\ steps[i].tone = settings[run.chat].tone
         /\ run.failed = "none" => Stage(steps[Len(steps)]) >= 6
         /\ run.failed \in {"get_file", "download_file", "mkstemp", "write", "transcribe"}
            => /\ \A i \in 1..Len(steps) : Stage(steps[i]) < 6
               /\ Len(replies) = 1 /\ IsErrorReply(replies[1])

\* a voice message of a chat that set its language is transcribed, completed
\* and answered in two segments
C14_Witness ==
  /\ AudioTried /\ run.failed = "none"
  /\ lastArg[run.chat].lang # None
  /\ Len(SelectSeq(run.calls, IsPart)) = 2

\* this step is a /lang (resp. /tone) of chat c that was accepted
AcceptedCommand(c, handler, ack) ==
  /\ run = NoRun /\ run'.handler = handler /\ run'.chat = c
  /\ run'.calls[1].kind = ack

\* C15: only /lang and /tone mutate session values: no step of /start, of a
\* text message or of a voice/audio/document message, and no rejected
\* command, changes the language or tone of an existing session, and an
\* existing session is never removed or reset.
C15_OnlyCommandsMutateSessions ==
  [][\A c \in DOMAIN settings :
       /\ c \in DOMAIN settings'
       /\ settings'[c].lang # settings[c].lang => AcceptedCommand(c, "cmd_lang", "ack_lang")
       /\ settings'[c].tone # settings[c].tone => AcceptedCommand(c, "cmd_tone", "ack_tone")]_vars

\* a voice message failed in a chat whose session holds a language and a tone
\* set by commands, and the session still holds them
C15_Witness ==
  /\ AudioTried /\ run.failed = "transcribe"
  /\ lastArg[run.chat].lang # None /\ lastArg[run.chat].tone # None
  /\ settings[run.chat].lang = Lower(lastArg[run.chat].lang[1])
  /\ settings[run.chat].tone = Lower(lastArg[run.chat].tone[1])
  /\ settings[run.chat].lang # DEFAULT_LANG /\ settings[run.chat].tone # DEFAULT_TONE

\* the session of chat c as a command finds it: stored, or the defaults
SessionBefore(c) ==
  IF c \in DOMAIN settings THEN settings[c]
  ELSE [lang |-> DEFAULT_LANG, tone |-> DEFAULT_TONE]

\* C16: a successful /lang changes only the language of the chat's session and
\* leaves its tone unchanged, a successful /tone changes only the tone and
\* leaves the language unchanged, so setting a language and a tone in either
\* order gives the same session.
C16_LangAndToneIndependent ==
  /\ [][\A c \in ChatIds :
          /\ AcceptedCommand(c, "cmd_lang", "ack_lang")
             => settings'[c] = [lang |-> run'.calls[1].lang, tone |-> SessionBefore(c).tone]
          /\ AcceptedCommand(c, "cmd_tone", "ack_tone")
             => settings'[c] = [lang |-> SessionBefore(c).lang, tone |-> run'.calls[1].tone]]_vars
  /\ [](\A c \in ChatIds, l \in LANGS, t \in TONES :
          /\ SetTone(SetLang(settings, c, l), c, t) = SetLang(SetTone(settings, c, t), c, l)
          /\ SetTone(SetLang(settings, c, l), c, t)[c] = [lang |-> l, tone |-> t])

\* a /tone is accepted in a chat whose language an earlier /lang had set
C16_Witness ==
  /\ Exited /\ run.handler = "cmd_tone" /\ run.calls[1].kind = "ack_tone"
  /\ lastArg[run.chat].lang # None
  /\ settings[run.chat] = [lang |-> Lower(lastArg[run.chat].lang[1]),
                            tone |-> run.calls[1].tone]
  /\ settings[run.chat].lang # DEFAULT_LANG /\ settings[run.chat].tone # DEFAULT_TONE

\* a text message, or a voice/audio/document message that reached the try block
MessageHandled ==
  Exited /\ (run.handler = "handle_text" \/ AudioTried)

\* C17: a text or voice/audio message whose handling fails in the try block has
\* exactly one error reply, the quota message or the generic message, and a
\* message whose handling succeeds has none.
C17_ExactlyOneErrorReply ==
  MessageHandled
  => LET errs == ErrorReplies(run.calls)
     IN  IF run.failed = "none" THEN errs = <<>>
         ELSE /\ Len(errs) = 1
              /\ errs[1].kind \in {"generic", IF run.handler = "handle_text"
                                                THEN "quota_text" ELSE "quota_audio"}

\* the send of the second segment of a text reply fails with a quota error
C17_Witness ==
  /\ MessageHandled /\ run.handler = "handle_text" /\ run.failed = "send"
  /\ Len(SelectSeq(run.calls, IsPart)) = 2
  /\ IsQuotaError(run.exc[1])
  /\ Len(ErrorReplies(run.calls)) = 1

====
